---- MODULE Spec2Model ----
(***************************************************************************)
(* The item registry of src/plugins/item_registry.rs: the global counter   *)
(* NEXT_ITEM_INDEX behind its Mutex, one AtomicUsize cell per registered   *)
(* item type (Kind), the claim protocol R::index() / initialize_item_index *)
(* run by concurrent threads, and the RegisteredItems container.           *)
(* ValueVec of src/data_structures/value_vector.rs follows it.             *)
(***************************************************************************)
EXTENDS Integers, Sequences, FiniteSets, TLC

\* Model bounds.
NumKinds == 3        \* item types, each with its own static INDEX cell
NumThreads == 2      \* threads calling into the registry
NumContainers == 2   \* RegisteredItems instances
WordBits == 3        \* width of usize in the model
MaxVal == 1          \* values written into an item's field: 0 .. MaxVal
MaxCalls == 2        \* calls a thread makes after its first one
MaxOps == 6          \* calls made on one ValueVec
MaxValue == 2        \* values pushed onto a ValueVec: 1 .. MaxValue
MaxLen == 3          \* longest Vec a ValueVec holds or is made from
NumKeys == 2         \* distinct keys given to an Index
NumIds == 2          \* distinct entity ids
MaxEntries == 2      \* entries an Index's table holds

Kinds == 1..NumKinds
Threads == 1..NumThreads
Containers == 1..NumContainers
\* RegisteredItems is neither Send nor Sync: its instances stay with the
\* thread that made them, here the main thread.
Owners == {t \in Threads : \A u \in Threads : t <= u}
NoContainer == 0
\* The RegisteredItems of a program that makes only one.
OnlyContainer == {c \in Containers : \A d \in Containers : c <= d}

\* usize::MAX, the "uninitialized" marker of an INDEX cell.
Sentinel == 2^WordBits - 1
Word == 0..Sentinel

NoThread == 0
NoKind == 0

VARIABLES
    counter,          \* the usize inside NEXT_ITEM_INDEX
    lock,             \* holder of NEXT_ITEM_INDEX's mutex, or NoThread
    poisoned,         \* a thread panicked while holding the mutex
    cell,             \* cell[k]: the static INDEX of Kind k
    pc,               \* pc[t]: where thread t is
    op,               \* op[t]: the public function thread t called
    kind,             \* kind[t]: the Kind (plugin_index cell) of the call
    candidate,        \* candidate[t]: local of initialize_item_index
    index,            \* index[t]: the value the claim operation returned to t
    num_items,        \* num_items[t]: the count read under the lock
    outcome,          \* outcome[t]: how t's call ended
    self,             \* self[t]: the RegisteredItems of t's call
    items,            \* items[c]: the slots of RegisteredItems c
    alive,            \* alive[c]: RegisteredItems c has been constructed
    first_claim,      \* history: the index of the first successful claim of k
    wins,             \* history: successful compare_exchange calls on cell[k]
    claimed_at_new,   \* history: Kinds claimed when new() was called for c
    order,            \* history: the Kinds in the order their claims succeeded
    written,          \* history: written[c][k], the last value stored in k's item
    initial_registered_items_count,  \* the test's count read before it spawns threads
    fresh,            \* Kinds still unclaimed when that count was read
    called,           \* Kinds the test raced threads on since then
    calls,            \* calls[t]: calls thread t went on to make after its first
    seen,             \* history: seen[t] is one more than the highest index
                      \* that calls of thread t have returned, 0 before any
    data,             \* the Vec inside a ValueVec's UnsafeCell
    borrows,          \* live &mut borrows of that Vec
    ret,              \* what the last ValueVec method returned
    log,              \* history: the ValueVec calls made and their results
    call,             \* the last ValueVec method called, with its arguments
    snap,             \* the Vec that to_vec returned
    original,         \* the Vec a ValueVec is made from
    out,              \* the Vec that a ValueVec was converted into
    iter,             \* what is left in the IntoIter of a ValueVec
    collected,        \* the elements the IntoIter has yielded
    lookup,           \* the HashTable of an Index: (key, set) entries in probe order
    icall,            \* the last Index method called, with its arguments
    iret              \* what that method returned

vars == <<counter, lock, poisoned, cell, pc, op, kind, candidate, index, num_items,
          outcome, self, items, alive, first_claim, wins, claimed_at_new,
          order, written, initial_registered_items_count, fresh, called,
          calls, seen, data, borrows, ret, log, call, snap, original, out, iter, collected,
          lookup, icall, iret>>

regs == <<counter, lock, poisoned, cell>>
hist == <<first_claim, wins, order, written>>
store == <<items, alive, claimed_at_new>>
test == <<initial_registered_items_count, fresh, called>>
vec == <<data, borrows, ret, log, call, snap, original, out, iter, collected>>
idx == <<lookup, icall, iret>>
registry == <<regs, pc, op, kind, candidate, index, num_items, outcome, self,
              store, hist, test, calls, seen>>

\* Option::None, and the values a test pushes.
None == 0
Values == 1..MaxValue

\* The Vecs of at most n of these values.
VecsUpTo(n) == UNION {[1..m -> Values] : m \in 0..n}

\* No Vec was returned yet.
NoVec == <<None>>

\* No ValueVec method was called yet.
NoCall == [op |-> "none", index |-> 0, value |-> None]

\* No Index method was called yet.
NoIndexCall == [op |-> "none", key |-> 0, hash |-> <<0, 0>>, id |-> 0, set |-> {}]

\* No Index method returned yet.
NoReturn == [tag |-> "none", val |-> FALSE]

\* No value was stored through get_mut yet.
NoWrite == MaxVal + 1

\* An empty OnceCell, and the boxed default value of Kind k.
EmptySlot == [kind |-> NoKind, val |-> 0]
new_boxed(k) == [kind |-> k, val |-> 0]

Claimed == {k \in Kinds : cell[k] # Sentinel}

\* The statics as the program starts, with n claims made earlier on cells
\* that are gone since (NEXT_ITEM_INDEX itself starts at Mutex::new(0)).
InitWith(n, src) ==
    /\ counter = n
    /\ lock = NoThread
    /\ poisoned = FALSE
    /\ cell = [k \in Kinds |-> Sentinel]
    /\ pc = [t \in Threads |-> "idle"]
    /\ op = [t \in Threads |-> "none"]
    /\ kind = [t \in Threads |-> NoKind]
    /\ candidate = [t \in Threads |-> 0]
    /\ index = [t \in Threads |-> 0]
    /\ num_items = [t \in Threads |-> 0]
    /\ outcome = [t \in Threads |-> "none"]
    /\ self = [t \in Threads |-> NoContainer]
    /\ items = [c \in Containers |-> <<>>]
    /\ alive = [c \in Containers |-> FALSE]
    /\ first_claim = [k \in Kinds |-> Sentinel]
    /\ wins = [k \in Kinds |-> 0]
    /\ claimed_at_new = [c \in Containers |-> {}]
    /\ order = <<>>
    /\ written = [c \in Containers |-> [k \in Kinds |-> NoWrite]]
    /\ initial_registered_items_count = n
    /\ fresh = Kinds
    /\ called = {}
    /\ calls = [t \in Threads |-> 0]
    /\ seen = [t \in Threads |-> 0]
    /\ data = <<>>
    /\ ret = None
    /\ borrows = 0
    /\ log = <<>>
    /\ call = NoCall
    /\ snap = NoVec
    /\ original = src
    /\ out = NoVec
    /\ iter = <<>>
    /\ collected = <<>>
    /\ lookup = <<>>
    /\ icall = NoIndexCall
    /\ iret = NoReturn

InitAt(n) == InitWith(n, <<>>)

Init == InitAt(0)

\* The program holds some Vec that it is about to wrap in a ValueVec.
InitConvert == \E src \in VecsUpTo(MaxLen) : InitWith(0, src)

\* Any count a usize can hold may have been reached by earlier claims.
InitHigh == \E n \in Word : InitAt(n)

\* ---- RegisteredItems::get / get_mut on a slot -----------------------------

\* self.items.get(index): Some(slot) exactly when index < len.
InBounds(i, slots) == i < Len(slots)

\* Slot i of a Vec, which counts from zero.
SlotAt(slots, i) == slots[i + 1]

\* downcast_ref::<R>() / downcast_mut::<R>() on the boxed item.
Downcast(slot, k) == IF slot.kind = k THEN "ok" ELSE "type_mismatch"

\* Mutant: get indexes the Vec directly, as get_mut does.
GetOutcomeIndexed(slots, i, k) ==
    IF ~(i < Len(slots)) THEN "index_out_of_bounds"
    ELSE IF slots[i + 1] = [kind |-> NoKind, val |-> 0] THEN "ok"
    ELSE IF slots[i + 1].kind = k THEN "ok" ELSE "type_mismatch"

\* get: .get(index).unwrap_or_else(|| panic!("No registered item found ..."))
\*         .get_or_init(|| R::new_boxed()).downcast_ref::<R>().expect(..)
GetOutcome(slots, i, k) ==
    IF ~InBounds(i, slots) THEN "no_registered_item"
    ELSE IF SlotAt(slots, i) = EmptySlot THEN "ok"
    ELSE Downcast(SlotAt(slots, i), k)

\* get_mut: self_shadow.items[index] panics out of bounds; an occupied slot is
\* downcast; an empty one is set to R::new_boxed() and then downcast.
GetMutOutcome(slots, i, k) ==
    IF ~InBounds(i, slots) THEN "index_out_of_bounds"
    ELSE IF SlotAt(slots, i) = EmptySlot THEN "ok"
    ELSE Downcast(SlotAt(slots, i), k)

\* Mutant: the item is built and stored on every access.
SlotsAfterRebuild(slots, i, k) ==
    IF InBounds(i, slots)
      THEN [slots EXCEPT ![i + 1] = new_boxed(k)]
      ELSE slots

\* Mutant: the new item goes into the first slot, whatever the index.
SlotsAfterFirstSlot(slots, i, k) ==
    IF InBounds(i, slots) /\ SlotAt(slots, i) = EmptySlot
      THEN [slots EXCEPT ![1] = new_boxed(k)]
      ELSE slots

\* get_or_init / cell.set: only an empty slot in bounds is written.
SlotsAfter(slots, i, k) ==
    IF InBounds(i, slots) /\ SlotAt(slots, i) = EmptySlot
      THEN [slots EXCEPT ![i + 1] = new_boxed(k)]
      ELSE slots

\* ---- R::index() and initialize_item_index --------------------------------

\* Mutant: the slots are shared by all RegisteredItems.
ReturnIndexShared(t, o, k, c, v) ==
    /\ index' = [index EXCEPT ![t] = v]
    /\ pc' = [pc EXCEPT ![t] = "done"]
    /\ outcome' = [outcome EXCEPT ![t] =
           IF o = "get" THEN GetOutcome(items[c], v, k)
           ELSE IF o = "get_mut" THEN GetMutOutcome(items[c], v, k)
           ELSE "ok"]
    /\ items' = IF o \in {"get", "get_mut"}
                  THEN [d \in DOMAIN items |-> SlotsAfter(items[d], v, k)]
                  ELSE items

\* The claim operation of Kind k hands v back to thread t, which called
\* function o: index() is done, get and get_mut go on to slot v of their own
\* container c.
ReturnIndex(t, o, k, c, v) ==
    /\ index' = [index EXCEPT ![t] = v]
    /\ pc' = [pc EXCEPT ![t] = "done"]
    /\ outcome' = [outcome EXCEPT ![t] =
           IF o = "get" THEN GetOutcome(items[c], v, k)
           ELSE IF o = "get_mut" THEN GetMutOutcome(items[c], v, k)
           ELSE "ok"]
    /\ items' = IF o \in {"get", "get_mut"}
                  THEN [items EXCEPT ![c] = SlotsAfter(items[c], v, k)]
                  ELSE items

\* Mutant: index() always goes to initialize_item_index.
FastPathNever(current) == FALSE

\* The fast path of index(): let index = INDEX.load(Relaxed);
\* if index != usize::MAX { return index; }
FastPath(current) == current # Sentinel

\* Thread t enters function o for Kind k; every one of them starts with
\* R::index(): the fast path returns at once, the slow path goes for the lock.
Enter(t, o, k, c) ==
    /\ pc[t] = "idle"
    /\ op' = [op EXCEPT ![t] = o]
    /\ kind' = [kind EXCEPT ![t] = k]
    /\ self' = [self EXCEPT ![t] = c]
    /\ IF FastPath(cell[k])
         THEN ReturnIndex(t, o, k, c, cell[k])
         ELSE /\ pc' = [pc EXCEPT ![t] = "lock"]
              /\ UNCHANGED <<index, outcome, items>>
    /\ UNCHANGED <<regs, candidate, num_items, alive, claimed_at_new, hist>>

\* R::index(), also reached through add_to_registry::<R>().
CallIndex(t, k) ==
    /\ Enter(t, "index", k, NoContainer)
    /\ UNCHANGED <<test, calls, seen, vec, idx>>

\* Mutant: the counter is read without waiting for the mutex.
LockNoWait(t) ==
    /\ pc[t] = "lock"
    /\ lock' = t
    /\ candidate' = [candidate EXCEPT ![t] = counter]
    /\ pc' = [pc EXCEPT ![t] = "cas"]
    /\ UNCHANGED <<counter, poisoned, cell, op, kind, index, num_items, self,
                   outcome, store, hist, test, calls, seen, vec, idx>>

\* let mut guard = NEXT_ITEM_INDEX.lock().unwrap(); let candidate = *guard;
\* lock() waits for the mutex; on a poisoned mutex unwrap() panics.
Lock(t) ==
    /\ pc[t] = "lock"
    /\ lock = NoThread
    /\ IF poisoned
         THEN /\ pc' = [pc EXCEPT ![t] = "done"]
              /\ outcome' = [outcome EXCEPT ![t] = "panicked"]
              /\ UNCHANGED <<lock, candidate>>
         ELSE /\ lock' = t
              /\ candidate' = [candidate EXCEPT ![t] = counter]
              /\ pc' = [pc EXCEPT ![t] = "cas"]
              /\ UNCHANGED outcome
    /\ UNCHANGED <<counter, poisoned, cell, op, kind, index, num_items, self,
                   store, hist, test, calls, seen, vec, idx>>

\* Mutant: a plain store in place of the compare_exchange.
CompareExchangeAlways(current) == TRUE

\* compare_exchange(usize::MAX, candidate, AcqRel, Acquire) succeeds exactly
\* when the cell holds usize::MAX.
CompareExchangeOk(current) == current = Sentinel

\* Mutant: the counter is incremented on the Err arm as well.
AfterCasAlwaysInc(ok) == "inc"

\* match: Ok(_) goes on to *guard += 1, Err(existing) returns.
AfterCas(ok) == IF ok THEN "inc" ELSE "unlock"

Cas(t) ==
    /\ pc[t] = "cas"
    /\ IF CompareExchangeOk(cell[kind[t]])
         THEN \* Ok(_): the cell now holds candidate
              /\ cell' = [cell EXCEPT ![kind[t]] = candidate[t]]
              /\ wins' = [wins EXCEPT ![kind[t]] = @ + 1]
              /\ first_claim' = [first_claim EXCEPT ![kind[t]] =
                                   IF wins[kind[t]] = 0 THEN candidate[t] ELSE @]
              /\ order' = Append(order, kind[t])
              /\ pc' = [pc EXCEPT ![t] = AfterCas(TRUE)]
              /\ UNCHANGED <<index, written>>
         ELSE \* Err(existing): return existing
              /\ index' = [index EXCEPT ![t] = cell[kind[t]]]
              /\ pc' = [pc EXCEPT ![t] = AfterCas(FALSE)]
              /\ UNCHANGED <<cell, hist>>
    /\ UNCHANGED <<counter, lock, poisoned, op, kind, candidate, num_items, self,
                   outcome, store, test, calls, seen, vec, idx>>

\* Mutants: the increment is forgotten; the counter skips a value.
IncrementNone(c) == c
IncrementTwice(c) == (c + 2) % (Sentinel + 1)

\* *guard += 1 on a usize: wraps in a build without overflow checks.
Increment(c) == (c + 1) % (Sentinel + 1)

\* *guard += 1; candidate.  At usize::MAX the addition overflows: a build with
\* overflow checks panics, the guard is dropped while unwinding and the mutex
\* is poisoned; a build without them wraps.
Inc(t) ==
    /\ pc[t] = "inc"
    /\ \E overflow_checks \in BOOLEAN :
         IF counter = Sentinel /\ overflow_checks
           THEN /\ poisoned' = TRUE
                /\ lock' = NoThread
                /\ pc' = [pc EXCEPT ![t] = "done"]
                /\ outcome' = [outcome EXCEPT ![t] = "panicked"]
                /\ UNCHANGED <<counter, index>>
           ELSE /\ counter' = Increment(counter)
                /\ index' = [index EXCEPT ![t] = candidate[t]]
                /\ pc' = [pc EXCEPT ![t] = "unlock"]
                /\ UNCHANGED <<lock, poisoned, outcome>>
    /\ UNCHANGED <<cell, op, kind, candidate, num_items, self, store, hist, test,
                   calls, seen, vec, idx>>

\* Mutant: the guard is leaked, the mutex stays locked.
UnlockLeaked(t) ==
    /\ pc[t] = "unlock"
    /\ ReturnIndex(t, op[t], kind[t], self[t], index[t])
    /\ UNCHANGED <<regs, op, kind, candidate, num_items, self,
                   alive, claimed_at_new, hist, test, calls, seen, vec, idx>>

\* The guard goes out of scope as initialize_item_index returns.
Unlock(t) ==
    /\ pc[t] = "unlock"
    /\ lock' = NoThread
    /\ ReturnIndex(t, op[t], kind[t], self[t], index[t])
    /\ UNCHANGED <<counter, poisoned, cell, op, kind, candidate, num_items, self,
                   alive, claimed_at_new, hist, test, calls, seen, vec, idx>>

\* ---- get_registered_item_count -------------------------------------------

\* get_registered_item_count().
CallCount(t) ==
    /\ pc[t] = "idle"
    /\ pc' = [pc EXCEPT ![t] = "count_lock"]
    /\ op' = [op EXCEPT ![t] = "count"]
    /\ UNCHANGED <<regs, kind, candidate, index, num_items, outcome, self, store,
                   hist, test, calls, seen, vec, idx>>

\* Mutant: the count is read without waiting for the mutex.
CountLockNoWait(t) ==
    /\ pc[t] = "count_lock"
    /\ lock' = t
    /\ num_items' = [num_items EXCEPT ![t] = counter]
    /\ pc' = [pc EXCEPT ![t] = "count_unlock"]
    /\ UNCHANGED <<counter, poisoned, cell, op, kind, candidate, index, self,
                   outcome, store, hist, test, calls, seen, vec, idx>>

\* *NEXT_ITEM_INDEX.lock().unwrap(): the count is read under the lock.
CountLock(t) ==
    /\ pc[t] = "count_lock"
    /\ lock = NoThread
    /\ IF poisoned
         THEN /\ pc' = [pc EXCEPT ![t] = "done"]
              /\ outcome' = [outcome EXCEPT ![t] = "panicked"]
              /\ UNCHANGED <<lock, num_items>>
         ELSE /\ lock' = t
              /\ num_items' = [num_items EXCEPT ![t] = counter]
              /\ pc' = [pc EXCEPT ![t] = "count_unlock"]
              /\ UNCHANGED outcome
    /\ UNCHANGED <<counter, poisoned, cell, op, kind, candidate, index, self,
                   store, hist, test, calls, seen, vec, idx>>

\* Mutant: one slot too few.
NewSlotsShort(n) == [i \in 1..(n - 1) |-> [kind |-> NoKind, val |-> 0]]

\* (0..num_items).map(|_| OnceCell::new()).collect()
NewSlots(n) == [i \in 1..n |-> EmptySlot]

\* The temporary guard is dropped at the end of the statement; new() then
\* builds Self { items: ... } from the count.
CountUnlock(t) ==
    /\ pc[t] = "count_unlock"
    /\ lock' = NoThread
    /\ pc' = [pc EXCEPT ![t] = "done"]
    /\ outcome' = [outcome EXCEPT ![t] = "ok"]
    /\ IF op[t] = "new"
         THEN /\ items' = [items EXCEPT ![self[t]] = NewSlots(num_items[t])]
              /\ alive' = [alive EXCEPT ![self[t]] = TRUE]
         ELSE UNCHANGED <<items, alive>>
    /\ UNCHANGED <<counter, poisoned, cell, op, kind, candidate, index, num_items,
                   self, claimed_at_new, hist, test, calls, seen, vec, idx>>

\* ---- the caller takes the result ----------------------------------------

\* The locals of a finished call go out of scope.
Forget(t) ==
    /\ pc[t] = "done"
    /\ pc' = [pc EXCEPT ![t] = "idle"]
    /\ op' = [op EXCEPT ![t] = "none"]
    /\ kind' = [kind EXCEPT ![t] = NoKind]
    /\ candidate' = [candidate EXCEPT ![t] = 0]
    /\ index' = [index EXCEPT ![t] = 0]
    /\ num_items' = [num_items EXCEPT ![t] = 0]
    /\ self' = [self EXCEPT ![t] = NoContainer]
    /\ outcome' = [outcome EXCEPT ![t] = "none"]
    /\ UNCHANGED <<regs, store, hist, test, vec, idx>>

\* The call has returned (or panicked); the thread may call again.
Return(t) ==
    /\ Forget(t)
    /\ UNCHANGED <<calls, seen>>

\* The same, remembering the index the caller was given.
ReturnSeen(t) ==
    /\ Forget(t)
    /\ seen' = [seen EXCEPT ![t] =
                   IF op[t] = "index" /\ outcome[t] = "ok" /\ index[t] >= @
                     THEN index[t] + 1
                     ELSE @]
    /\ UNCHANGED calls

\* The same, for a thread that makes a fixed number of calls.
ReturnCounted(t) ==
    /\ calls[t] < MaxCalls
    /\ Forget(t)
    /\ calls' = [calls EXCEPT ![t] = @ + 1]
    /\ UNCHANGED seen

\* ---- RegisteredItems ------------------------------------------------------

\* RegisteredItems::new(): let num_items = get_registered_item_count();
CallNew(t, c) ==
    /\ pc[t] = "idle"
    /\ ~alive[c]
    /\ pc' = [pc EXCEPT ![t] = "count_lock"]
    /\ op' = [op EXCEPT ![t] = "new"]
    /\ self' = [self EXCEPT ![t] = c]
    /\ claimed_at_new' = [claimed_at_new EXCEPT ![c] = Claimed]
    /\ UNCHANGED <<regs, kind, candidate, index, num_items, outcome, items, alive,
                   hist, test, calls, seen, vec, idx>>

\* items.get::<R>() on container c.
CallGet(t, c, k) ==
    /\ alive[c]
    /\ Enter(t, "get", k, c)
    /\ UNCHANGED <<test, calls, seen, vec, idx>>

\* items.get_mut::<R>() on container c.
CallGetMut(t, c, k) ==
    /\ alive[c]
    /\ Enter(t, "get_mut", k, c)
    /\ UNCHANGED <<test, calls, seen, vec, idx>>

\* item.value = v through the &mut R that get_mut returned: the caller still
\* holds the exclusive borrow of the container.
Write(t, v) ==
    /\ pc[t] = "done"
    /\ op[t] = "get_mut"
    /\ outcome[t] = "ok"
    /\ kind[t] \in Kinds
    /\ items' = [items EXCEPT ![self[t]][index[t] + 1].val = v]
    /\ written' = [written EXCEPT ![self[t]][kind[t]] = v]
    /\ UNCHANGED <<regs, pc, op, kind, candidate, index, num_items, outcome, self,
                   alive, claimed_at_new, first_claim, wins, order, test, calls, seen,
                   vec, idx>>

\* A type that implements RegisteredItem by hand, outside the claim protocol:
\* its index() returns a constant.
UnregisteredEntity == NumKinds + 1

\* items.get::<UnregisteredEntity>() or get_mut, with v the constant its
\* index() returns.
CallUnregistered(t, o, c, v) ==
    /\ pc[t] = "idle"
    /\ alive[c]
    /\ op' = [op EXCEPT ![t] = o]
    /\ kind' = [kind EXCEPT ![t] = UnregisteredEntity]
    /\ self' = [self EXCEPT ![t] = c]
    /\ ReturnIndex(t, o, UnregisteredEntity, c, v)
    /\ UNCHANGED <<regs, candidate, num_items, alive, claimed_at_new, hist, test,
                   calls, seen, vec, idx>>

\* ---- the concurrency test ---------------------------------------------------

\* let initial_registered_items_count = get_registered_item_count(); read by
\* the test's main thread while none of its threads runs; the cells it races
\* afterwards are new ones.
ReadInitialCount ==
    /\ \A t \in Threads : pc[t] = "idle"
    /\ ~poisoned
    /\ called # {}
    /\ initial_registered_items_count' = counter
    /\ fresh' = Kinds \ Claimed
    /\ called' = {}
    /\ UNCHANGED <<regs, pc, op, kind, candidate, index, num_items, outcome, self,
                   store, hist, calls, seen, vec, idx>>

\* thread::spawn(move || initialize_item_index(&entity)) on one of the cells
\* created after the count was read: the slow path, with no load before it.
Spawn(t, k) ==
    /\ pc[t] = "idle"
    /\ k \in fresh
    /\ pc' = [pc EXCEPT ![t] = "lock"]
    /\ op' = [op EXCEPT ![t] = "init"]
    /\ kind' = [kind EXCEPT ![t] = k]
    /\ called' = called \cup {k}
    /\ UNCHANGED <<regs, candidate, index, num_items, outcome, self, store, hist,
                   initial_registered_items_count, fresh, calls, seen, vec, idx>>

\* ---- ValueVec -------------------------------------------------------------

\* len(): (&*self.data.get()).len()
len == Len(data)

\* is_empty(): self.len() == 0
is_empty == len = 0

\* Mutant: pop takes the first element.
popFront ==
    /\ IF data = <<>>
         THEN /\ ret' = None
              /\ UNCHANGED data
         ELSE /\ ret' = Head(data)
              /\ data' = Tail(data)
    /\ call' = [op |-> "pop", index |-> 0, value |-> None]
    /\ UNCHANGED <<registry, idx, borrows, snap, original, out, iter, collected>>

\* push(value): self.with_vec(|v| v.push(value))
push(value) ==
    /\ data' = Append(data, value)
    /\ ret' = None
    /\ call' = [op |-> "push", index |-> 0, value |-> value]
    /\ UNCHANGED <<registry, idx, borrows, snap, original, out, iter, collected>>

\* pop(): self.with_vec(|v| v.pop()): Some(last element), or None if empty.
pop ==
    /\ IF data = <<>>
         THEN /\ ret' = None
              /\ UNCHANGED data
         ELSE /\ ret' = data[Len(data)]
              /\ data' = SubSeq(data, 1, Len(data) - 1)
    /\ call' = [op |-> "pop", index |-> 0, value |-> None]
    /\ UNCHANGED <<registry, idx, borrows, snap, original, out, iter, collected>>

\* Mutant: replace stores the value but hands the new value back.
replaceReturnsNew(position, value) ==
    /\ IF position < Len(data)
         THEN /\ ret' = value
              /\ data' = [data EXCEPT ![position + 1] = value]
         ELSE /\ ret' = None
              /\ UNCHANGED data
    /\ call' = [op |-> "replace", index |-> position, value |-> value]
    /\ UNCHANGED <<registry, idx, borrows, snap, original, out, iter, collected>>

\* replace(index, value): if index < v.len()
\* { Some(core::mem::replace(&mut v[index], value)) } else { None }
replace(position, value) ==
    /\ IF position < Len(data)
         THEN /\ ret' = data[position + 1]
              /\ data' = [data EXCEPT ![position + 1] = value]
         ELSE /\ ret' = None
              /\ UNCHANGED data
    /\ call' = [op |-> "replace", index |-> position, value |-> value]
    /\ UNCHANGED <<registry, idx, borrows, snap, original, out, iter, collected>>

\* clear(): self.with_vec(|v| v.clear())
clear ==
    /\ data' = <<>>
    /\ ret' = None
    /\ call' = [op |-> "clear", index |-> 0, value |-> None]
    /\ UNCHANGED <<registry, idx, borrows, snap, original, out, iter, collected>>

\* Mutant: to_vec moves the elements out instead of cloning them.
to_vec_taken ==
    /\ snap' = data
    /\ data' = <<>>
    /\ ret' = None
    /\ call' = [op |-> "to_vec", index |-> 0, value |-> None]
    /\ UNCHANGED <<registry, idx, borrows, original, out, iter, collected>>

\* to_vec(): (&*self.data.get()).clone()
to_vec ==
    /\ snap' = data
    /\ ret' = None
    /\ call' = [op |-> "to_vec", index |-> 0, value |-> None]
    /\ UNCHANGED <<registry, idx, borrows, data, original, out, iter, collected>>

\* A method of ValueVec panicked instead of returning.
Panic == MaxValue + 1

\* ValueVec::new(): an empty Vec in a new UnsafeCell; the Vecs taken from an
\* earlier ValueVec are dropped.
ValueVecNew ==
    /\ data' = <<>>
    /\ ret' = None
    /\ snap' = NoVec
    /\ out' = NoVec
    /\ call' = [op |-> "new", index |-> 0, value |-> None]
    /\ UNCHANGED <<registry, idx, borrows, original, iter, collected>>

\* extend(iter): v.extend(iter) moves the iterator's elements to the end.
extend(elems) ==
    /\ data' = data \o elems
    /\ ret' = None
    /\ call' = [op |-> "extend", index |-> 0, value |-> None]
    /\ UNCHANGED <<registry, idx, borrows, snap, original, out, iter, collected>>

\* extend(iter) step by step, for an iterator written by the caller.
\* with_vec takes &mut *self.data.get() and hands it to the closure, which
\* starts v.extend(iter).
extend_with_vec(elems) ==
    /\ borrows = 0
    /\ borrows' = borrows + 1
    /\ iter' = elems
    /\ ret' = None
    /\ call' = [op |-> "extend", index |-> 0, value |-> None]
    /\ UNCHANGED <<registry, idx, data, log, snap, original, out, collected>>

\* v.extend calls the iterator's next(), which yields an element; it is moved
\* to the end of the Vec.
iter_next ==
    /\ borrows = 1
    /\ iter # <<>>
    /\ data' = Append(data, Head(iter))
    /\ iter' = Tail(iter)
    /\ UNCHANGED <<registry, idx, borrows, ret, log, call, snap, original, out,
                   collected>>

\* The iterator's next() is the caller's code and holds a &ValueVec like any
\* caller: it calls push on the same ValueVec, whose with_vec takes a second
\* &mut *self.data.get() while the first is live.
iter_next_push ==
    /\ borrows = 1
    /\ iter # <<>>
    /\ borrows' = borrows + 1
    /\ call' = [op |-> "push", index |-> 0, value |-> Head(iter)]
    /\ UNCHANGED <<registry, idx, data, ret, log, snap, original, out, iter,
                   collected>>

\* The inner push returns and its borrow ends.  Two live &mut to one Vec are
\* undefined behaviour: the Vec may hold anything afterwards.
push_returns(contents) ==
    /\ borrows = 2
    /\ borrows' = borrows - 1
    /\ data' = contents
    /\ call' = [op |-> "extend", index |-> 0, value |-> None]
    /\ UNCHANGED <<registry, idx, ret, log, snap, original, out, iter,
                   collected>>

\* The iterator is exhausted, the closure returns and the borrow ends with
\* with_vec.
extend_returns ==
    /\ borrows = 1
    /\ iter = <<>>
    /\ borrows' = borrows - 1
    /\ UNCHANGED <<registry, idx, data, ret, log, call, snap, original, out,
                   iter, collected>>

\* Mutant: the elements behind the removed one are shifted left, as remove
\* does.
swap_remove_shift(position) ==
    /\ IF position < Len(data)
         THEN /\ ret' = data[position + 1]
              /\ data' = SubSeq(data, 1, position)
                            \o SubSeq(data, position + 2, Len(data))
         ELSE /\ ret' = Panic
              /\ UNCHANGED data
    /\ call' = [op |-> "swap_remove", index |-> position, value |-> None]
    /\ UNCHANGED <<registry, idx, borrows, snap, original, out, iter, collected>>

\* swap_remove(index): Vec::swap_remove puts the last element in the place of
\* the removed one and panics when index is out of bounds.
swap_remove(position) ==
    /\ IF position < Len(data)
         THEN /\ ret' = data[position + 1]
              /\ data' = [i \in 1..(Len(data) - 1) |->
                             IF i = position + 1 THEN data[Len(data)]
                             ELSE data[i]]
         ELSE /\ ret' = Panic
              /\ UNCHANGED data
    /\ call' = [op |-> "swap_remove", index |-> position, value |-> None]
    /\ UNCHANGED <<registry, idx, borrows, snap, original, out, iter, collected>>

\* ValueVec::from(src): Self { data: UnsafeCell::new(src) }, for the Vec the
\* program holds or one equal to it.
from ==
    /\ call.op \in {"none", "into"}
    /\ data' = original
    /\ call' = [op |-> "from", index |-> 0, value |-> None]
    /\ UNCHANGED <<registry, idx, borrows, ret, log, snap, original, out, iter, collected>>

\* Vec::from(val): val.data.into_inner(); the ValueVec is consumed.
into ==
    /\ out' = data
    /\ data' = <<>>
    /\ call' = [op |-> "into", index |-> 0, value |-> None]
    /\ UNCHANGED <<registry, idx, borrows, ret, log, snap, original, iter, collected>>

\* into_iter(): self.data.into_inner().into_iter(); the ValueVec is consumed.
into_iter ==
    /\ call.op = "from"
    /\ iter' = data
    /\ collected' = <<>>
    /\ data' = <<>>
    /\ call' = [op |-> "into_iter", index |-> 0, value |-> None]
    /\ UNCHANGED <<registry, idx, borrows, ret, log, snap, original, out>>

\* Mutant: the iterator yields from the back.
next_back ==
    /\ call.op \in {"into_iter", "next"}
    /\ iter # <<>>
    /\ collected' = Append(collected, iter[Len(iter)])
    /\ iter' = SubSeq(iter, 1, Len(iter) - 1)
    /\ call' = [op |-> "next", index |-> 0, value |-> None]
    /\ UNCHANGED <<registry, idx, borrows, data, ret, log, snap, original, out>>

\* .collect() takes the next element of std::vec::IntoIter, front first.
next ==
    /\ call.op \in {"into_iter", "next"}
    /\ iter # <<>>
    /\ collected' = Append(collected, Head(iter))
    /\ iter' = Tail(iter)
    /\ call' = [op |-> "next", index |-> 0, value |-> None]
    /\ UNCHANGED <<registry, idx, borrows, data, ret, log, snap, original, out>>

\* A call of the test push_pop, recorded with its result.
Logged(name, arg) ==
    /\ Len(log) < MaxOps
    /\ log' = Append(log, [op |-> name, arg |-> arg, res |-> ret'])

\* ---- specifications --------------------------------------------------------

\* Threads using the registry alone: the claim protocol and the count.
Next ==
    \/ \E t \in Threads, k \in Kinds : CallIndex(t, k)
    \/ \E t \in Threads : CallCount(t)
    \/ \E t \in Threads : Lock(t)
    \/ \E t \in Threads : Cas(t)
    \/ \E t \in Threads : Inc(t)
    \/ \E t \in Threads : Unlock(t)
    \/ \E t \in Threads : CountLock(t)
    \/ \E t \in Threads : CountUnlock(t)
    \/ \E t \in Threads : Return(t)

Spec == Init /\ [][Next]_vars

\* test_initialize_item_index_concurrent: the main thread reads the count,
\* then races threads on new cells and joins them.
NextTest ==
    \/ ReadInitialCount
    \/ \E t \in Threads, k \in Kinds : Spawn(t, k)
    \/ \E t \in Threads : Lock(t)
    \/ \E t \in Threads : Cas(t)
    \/ \E t \in Threads : Inc(t)
    \/ \E t \in Threads : Unlock(t)
    \/ \E t \in Threads : Return(t)

SpecTest == Init /\ [][NextTest]_vars

\* The main thread builds and uses its RegisteredItems while every thread may
\* register Kinds.
NextItems ==
    \/ \E t \in Threads, k \in Kinds : CallIndex(t, k)
    \/ \E t \in Threads : Lock(t)
    \/ \E t \in Threads : Cas(t)
    \/ \E t \in Threads : Inc(t)
    \/ \E t \in Threads : Unlock(t)
    \/ \E t \in Threads : Return(t)
    \/ \E t \in Owners, c \in OnlyContainer : CallNew(t, c)
    \/ \E t \in Owners : CountLock(t)
    \/ \E t \in Owners : CountUnlock(t)
    \/ \E t \in Owners, c \in OnlyContainer, k \in Kinds : CallGet(t, c, k)
    \/ \E t \in Owners, c \in OnlyContainer, k \in Kinds : CallGetMut(t, c, k)

SpecItems == Init /\ [][NextItems]_vars

\* The registry from any count a usize can hold.
SpecHigh == InitHigh /\ [][Next]_vars

\* Threads that each make a fixed number of calls: claims and counts by
\* every thread, container calls by the main thread.
NextLive ==
    \/ \E t \in Threads, k \in Kinds : CallIndex(t, k)
    \/ \E t \in Threads : CallCount(t)
    \/ \E t \in Threads : Lock(t)
    \/ \E t \in Threads : Cas(t)
    \/ \E t \in Threads : Inc(t)
    \/ \E t \in Threads : Unlock(t)
    \/ \E t \in Threads : CountLock(t)
    \/ \E t \in Threads : CountUnlock(t)
    \/ \E t \in Threads : ReturnCounted(t)
    \/ \E t \in Owners, c \in OnlyContainer : CallNew(t, c)
    \/ \E t \in Owners, c \in OnlyContainer, k \in Kinds : CallGet(t, c, k)
    \/ \E t \in Owners, c \in OnlyContainer, k \in Kinds : CallGetMut(t, c, k)

\* A step of thread t inside a call it has made.
Running(t) ==
    Lock(t) \/ Cas(t) \/ Inc(t) \/ Unlock(t) \/ CountLock(t) \/ CountUnlock(t)

\* The scheduler lets every thread that can run do so eventually; a thread
\* that waits for the mutex runs once the mutex stays free.
SpecLive ==
    /\ Init
    /\ [][NextLive]_vars
    /\ \A t \in Threads : WF_vars(Running(t))

\* A ValueVec made by ValueVec::new() and used through push and pop.
NextPushPop ==
    \/ \E value \in Values : push(value) /\ Logged("push", value)
    \/ pop /\ Logged("pop", None)

\* A ValueVec of bounded length under push, pop, replace, clear and to_vec.
NextVec ==
    \/ \E value \in Values : Len(data) < MaxLen /\ push(value) /\ UNCHANGED log
    \/ pop /\ UNCHANGED log
    \/ \E position \in 0..MaxLen, value \in Values :
           replace(position, value) /\ UNCHANGED log
    \/ clear /\ UNCHANGED log
    \/ to_vec /\ UNCHANGED log

SpecVec == Init /\ [][NextVec]_vars

\* The test swap_remove_works with any elements and index: a ValueVec is
\* filled, elements are removed, snapshots are taken, and the ValueVec is at
\* last converted into a Vec, after which the test may start again.
NextSwapRemove ==
    \/ call.op = "into" /\ ValueVecNew /\ UNCHANGED log
    \/ \E elems \in VecsUpTo(MaxLen) :
          /\ call.op # "into"
          /\ Len(data) + Len(elems) <= MaxLen
          /\ extend(elems)
          /\ UNCHANGED log
    \/ \E position \in 0..MaxLen :
          call.op # "into" /\ swap_remove(position) /\ UNCHANGED log
    \/ call.op # "into" /\ to_vec /\ UNCHANGED log
    \/ call.op # "into" /\ into

SpecSwapRemove == Init /\ [][NextSwapRemove]_vars

\* Calls on one ValueVec by a caller that passes its own iterators to extend;
\* push and pop stand for the methods that run none of the caller's code.
NextBorrow ==
    \/ \E value \in Values :
          borrows = 0 /\ Len(data) < MaxLen /\ push(value) /\ UNCHANGED log
    \/ borrows = 0 /\ pop /\ UNCHANGED log
    \/ \E elems \in VecsUpTo(MaxLen) :
          Len(data) + Len(elems) <= MaxLen /\ extend_with_vec(elems)
    \/ iter_next
    \/ iter_next_push
    \/ \E contents \in VecsUpTo(MaxLen) : push_returns(contents)
    \/ extend_returns

SpecBorrow == Init /\ [][NextBorrow]_vars

\* A Vec wrapped in a ValueVec and taken out again, as a Vec and through the
\* iterator.
NextConvert ==
    \/ from
    \/ call.op = "from" /\ into
    \/ into_iter
    \/ next

SpecConvert == InitConvert /\ [][NextConvert]_vars

\* ---------------------------------------------------------------------------
\* Index<T>: lookup is the HashTable<(T, HashSet<EntityId>)>, kept as the
\* entries in the order a probe meets them.
\* ---------------------------------------------------------------------------

Keys == 1..NumKeys
EntityIds == 1..NumIds

\* A HashValue is the pair <<high 64 bits, low 64 bits>>.  Hashes holds the
\* hash of every key and, for each, a hash of no key with the same low bits.
Hashes == {0, 1} \X Keys

\* one_shot_128: equal keys give equal hashes, different keys different ones.
one_shot_128(key) == <<0, key>>

\* hash as u64: the low 64 bits.
as_u64(hash) == hash[2]

\* HashTable::find(hash as u64, hash128_equality): the position of the first
\* entry in the probe sequence of the truncated hash whose stored value has
\* the full hash, 0 when there is none.
find(table, hash) ==
    LET hits == {i \in 1..Len(table) :
                    /\ as_u64(one_shot_128(table[i].key)) = as_u64(hash)
                    /\ one_shot_128(table[i].key) = hash}
    IN  IF hits = {} THEN 0 ELSE CHOOSE i \in hits : \A j \in hits : i <= j

\* The table with one more entry; where a probe meets it depends on the
\* table's layout.
Inserted(table, at, entry) ==
    SubSeq(table, 1, at - 1) \o <<entry>> \o SubSeq(table, at, Len(table))

\* get_with_hash(hash): <<set>> for Some(set), <<>> for None.
get_with_hash(hash) ==
    IF find(lookup, hash) = 0 THEN <<>> ELSE <<lookup[find(lookup, hash)].set>>

\* get(key) defers to get_with_hash.
get(key) == get_with_hash(one_shot_128(key))

\* has_hash(hash): get_with_hash(hash).is_some().
has_hash(hash) == get_with_hash(hash) # <<>>

\* HashSet::insert returns true when the value was not in the set.
HashSetInsert(set, entity_id) == entity_id \notin set

\* insert_entity(key, entity_id): entry(..).or_insert_with(|| (key, {}))
\* .get_mut().1.insert(entity_id).
insert_entity(key, entity_id) ==
    LET hash == one_shot_128(key)
        found == find(lookup, hash)
    IN  /\ IF found = 0
             THEN /\ Len(lookup) < MaxEntries
                  /\ \E at \in 1..(Len(lookup) + 1) :
                        lookup' = Inserted(lookup, at,
                                           [key |-> key, set |-> {entity_id}])
                  /\ iret' = [tag |-> "bool",
                              val |-> HashSetInsert({}, entity_id)]
             ELSE /\ lookup' = [lookup EXCEPT
                                   ![found].set = @ \cup {entity_id}]
                  /\ iret' = [tag |-> "bool",
                              val |-> HashSetInsert(lookup[found].set,
                                                    entity_id)]
        /\ icall' = [op |-> "insert_entity", key |-> key, hash |-> hash,
                     id |-> entity_id, set |-> {}]
        /\ UNCHANGED <<registry, vec>>

\* insert_value(key, set): insert_unique, which does not look for an entry
\* of the same key.
insert_value(key, set) ==
    /\ Len(lookup) < MaxEntries
    /\ \E at \in 1..(Len(lookup) + 1) :
          lookup' = Inserted(lookup, at, [key |-> key, set |-> set])
    /\ iret' = [tag |-> "entry", val |-> FALSE]
    /\ icall' = [op |-> "insert_value", key |-> key,
                 hash |-> one_shot_128(key), id |-> 0, set |-> set]
    /\ UNCHANGED <<registry, vec>>

\* insert_entity_with_hash(hash, entity_id): find_mut(..).ok_or(())?, then
\* Ok(entities.insert(entity_id)).
insert_entity_with_hash(hash, entity_id) ==
    LET found == find(lookup, hash)
    IN  /\ IF found = 0
             THEN /\ iret' = [tag |-> "err", val |-> FALSE]
                  /\ UNCHANGED lookup
             ELSE /\ lookup' = [lookup EXCEPT
                                   ![found].set = @ \cup {entity_id}]
                  /\ iret' = [tag |-> "ok",
                              val |-> HashSetInsert(lookup[found].set,
                                                    entity_id)]
        /\ icall' = [op |-> "insert_entity_with_hash", key |-> 0,
                     hash |-> hash, id |-> entity_id, set |-> {}]
        /\ UNCHANGED <<registry, vec>>

\* Any sequence of calls on one Index, from Index::new().
NextIndex ==
    \/ \E key \in Keys, entity_id \in EntityIds : insert_entity(key, entity_id)
    \/ \E key \in Keys, set \in SUBSET EntityIds : insert_value(key, set)
    \/ \E hash \in Hashes, entity_id \in EntityIds :
          insert_entity_with_hash(hash, entity_id)

SpecIndex == Init /\ [][NextIndex]_vars

SpecPushPop == Init /\ [][NextPushPop]_vars

\* One thread registers Kinds and uses its RegisteredItems, as the tests of
\* the container do.
NextOwner ==
    \/ \E t \in Owners, k \in Kinds : CallIndex(t, k)
    \/ \E t \in Owners : CallCount(t)
    \/ \E t \in Owners : Lock(t)
    \/ \E t \in Owners : Cas(t)
    \/ \E t \in Owners : Inc(t)
    \/ \E t \in Owners : Unlock(t)
    \/ \E t \in Owners, c \in OnlyContainer : CallNew(t, c)
    \/ \E t \in Owners : CountLock(t)
    \/ \E t \in Owners : CountUnlock(t)
    \/ \E t \in Owners, c \in OnlyContainer, k \in Kinds : CallGet(t, c, k)
    \/ \E t \in Owners, c \in OnlyContainer, k \in Kinds : CallGetMut(t, c, k)
    \/ \E t \in Owners, v \in 0..MaxVal : Write(t, v)
    \/ \E t \in Owners : Return(t)

SpecOwner == Init /\ [][NextOwner]_vars

\* One thread with several RegisteredItems alive at once.
NextContainers ==
    \/ \E t \in Owners, k \in Kinds : CallIndex(t, k)
    \/ \E t \in Owners : Lock(t)
    \/ \E t \in Owners : Cas(t)
    \/ \E t \in Owners : Inc(t)
    \/ \E t \in Owners : Unlock(t)
    \/ \E t \in Owners, c \in Containers : CallNew(t, c)
    \/ \E t \in Owners : CountLock(t)
    \/ \E t \in Owners : CountUnlock(t)
    \/ \E t \in Owners, c \in Containers, k \in Kinds : CallGet(t, c, k)
    \/ \E t \in Owners, c \in Containers, k \in Kinds : CallGetMut(t, c, k)
    \/ \E t \in Owners, v \in 0..MaxVal : Write(t, v)
    \/ \E t \in Owners : Return(t)

SpecContainers == Init /\ [][NextContainers]_vars

\* One thread and one RegisteredItems, with a type whose index() bypasses the
\* claim protocol.
NextUnregistered ==
    \/ NextOwner
    \/ \E t \in Owners, o \in {"get", "get_mut"}, c \in OnlyContainer, v \in Word :
           CallUnregistered(t, o, c, v)

SpecUnregistered == Init /\ [][NextUnregistered]_vars

\* Threads that claim Kinds and then read the count or build their
\* RegisteredItems.
NextObserve ==
    \/ \E t \in Threads, k \in Kinds : CallIndex(t, k)
    \/ \E t \in Threads : Lock(t)
    \/ \E t \in Threads : Cas(t)
    \/ \E t \in Threads : Inc(t)
    \/ \E t \in Threads : Unlock(t)
    \/ \E t \in Threads : CallCount(t)
    \/ \E t \in Threads, c \in OnlyContainer : CallNew(t, c)
    \/ \E t \in Threads : CountLock(t)
    \/ \E t \in Threads : CountUnlock(t)
    \/ \E t \in Threads : ReturnSeen(t)

SpecObserve == Init /\ [][NextObserve]_vars

\* ---- properties -------------------------------------------------------------

ClaimOps == {"index", "init", "get", "get_mut"}
Quiescent == \A t \in Threads : pc[t] \in {"idle", "done"}
ClaimedIndices == {cell[k] : k \in Claimed}

\* C1 (Uniqueness): two distinct Kinds whose cells both hold a claimed index
\* hold different indices, in every reachable state.
UniqueIndices ==
    \A k1 \in Claimed, k2 \in Claimed : k1 # k2 => cell[k1] # cell[k2]

\* Two Kinds are claimed and a thread that raced for one of them is still in
\* the slow path.
UniqueIndicesWitness ==
    /\ Cardinality(Claimed) >= 2
    /\ \E t \in Threads : pc[t] = "cas" /\ kind[t] \in Claimed

\* C2 (Density): whenever the lock is free, the claimed indices of the N
\* claimed Kinds are exactly 0 .. N-1.
DenseIndices ==
    lock = NoThread => ClaimedIndices = 0 .. (Cardinality(Claimed) - 1)

\* Every Kind is claimed, and not in the order of the Kinds' numbers.
DenseIndicesWitness ==
    /\ lock = NoThread
    /\ Claimed = Kinds
    /\ \E k1 \in Kinds, k2 \in Kinds : k1 < k2 /\ cell[k1] > cell[k2]

\* C3 (Idempotence): every call of the claim operation for a Kind returns the
\* index of the first successful claim of that Kind.
SameIndexEveryCall ==
    \A t \in Threads :
        (pc[t] = "done" /\ op[t] \in ClaimOps /\ outcome[t] # "panicked")
            => /\ index[t] = first_claim[kind[t]]
               /\ index[t] # Sentinel

\* Two calls for one Kind have returned at once, one of them having lost the
\* race in the slow path.
SameIndexEveryCallWitness ==
    \E t \in Threads, u \in Threads :
        /\ t # u
        /\ pc[t] = "done" /\ pc[u] = "done"
        /\ op[t] = "index" /\ op[u] = "index"
        /\ kind[t] = kind[u]
        /\ candidate[u] # index[u]

\* C4 (Counter = claimed Kinds): whenever the lock is free the counter is the
\* number of claimed cells, and each claimed Kind accounts for one increment.
CounterCountsKinds ==
    lock = NoThread =>
        /\ counter = Cardinality(Claimed)
        /\ \A k \in Kinds : wins[k] = IF k \in Claimed THEN 1 ELSE 0

\* Both threads called for the same Kind and are done; one Kind is claimed.
CounterCountsKindsWitness ==
    /\ lock = NoThread
    /\ counter = 1
    /\ \E t \in Threads, u \in Threads :
        /\ t # u
        /\ pc[t] = "done" /\ pc[u] = "done"
        /\ kind[t] = kind[u]
        /\ candidate[u] # index[u]

\* C5 (Same-Kind race): while the threads spawned since the count was read
\* all race for one new cell, every one of them returns the count that was
\* read, and the counter ends exactly one above it.
SameKindRace ==
    \A k \in Kinds :
        called = {k} =>
            /\ \A t \in Threads :
                   pc[t] = "done" => index[t] = initial_registered_items_count
            /\ counter \in {initial_registered_items_count,
                            initial_registered_items_count + 1}
            /\ Quiescent => counter = initial_registered_items_count + 1

\* After an earlier round, all threads raced for one new cell and are done;
\* all but one of them lost the compare_exchange.
SameKindRaceWitness ==
    /\ Cardinality(called) = 1
    /\ initial_registered_items_count >= 1
    /\ \A t \in Threads : pc[t] = "done" /\ kind[t] \in called
    /\ \E t \in Threads : candidate[t] # index[t]

\* C6 (Distinct-Kind claims): once the threads spawned on K new cells have
\* all returned, the K cells hold the K consecutive indices from the count
\* that was read, every thread returned its cell's index, and the counter is
\* K above that count.
DistinctKindClaims ==
    /\ \A t \in Threads : pc[t] = "done" => index[t] = cell[kind[t]]
    /\ Quiescent =>
        /\ {cell[k] : k \in called} =
               initial_registered_items_count ..
                   (initial_registered_items_count + Cardinality(called) - 1)
        /\ \A k1 \in called, k2 \in called : k1 # k2 => cell[k1] # cell[k2]
        /\ counter = initial_registered_items_count + Cardinality(called)

\* After an earlier round, threads raced for two new cells and are done.
DistinctKindClaimsWitness ==
    /\ Cardinality(called) >= 2
    /\ initial_registered_items_count >= 1
    /\ \A t \in Threads : pc[t] = "done"
    /\ \E t \in Threads, u \in Threads : kind[t] # kind[u]

\* C7 (Write-once cell): every cell starts at the sentinel, a step changes it
\* only from the sentinel to a concrete index, and it is written at most once.
WriteOnceCell ==
    /\ \A k \in Kinds : cell[k] = Sentinel
    /\ [][\A k \in Kinds :
            /\ cell'[k] # cell[k] => (cell[k] = Sentinel /\ cell'[k] # Sentinel)
            /\ wins'[k] <= 1]_vars

\* A thread in the slow path finds the cell already claimed.
WriteOnceCellWitness ==
    \E t \in Threads :
        /\ pc[t] = "unlock"
        /\ candidate[t] # index[t]
        /\ cell[kind[t]] = index[t]

\* C8 (Monotone counter): no step decreases the counter, and the only step
\* that changes it is the increment by one of a thread that won its
\* compare_exchange.
MonotoneCounter ==
    [][/\ counter' >= counter
       /\ counter' # counter =>
            \E t \in Threads :
                /\ pc[t] = "inc"
                /\ cell[kind[t]] = candidate[t]
                /\ counter' = counter + 1]_vars

\* The counter has advanced and a count is being read.
MonotoneCounterWitness ==
    /\ counter >= 2
    /\ \E t \in Threads : pc[t] = "count_unlock" /\ num_items[t] = counter

\* C9 (A claim yields an initialized index): from any count a usize can
\* hold, a claim that returns never returns the sentinel and leaves the cell
\* holding a non-sentinel value.
ClaimYieldsIndex ==
    \A t \in Threads :
        (pc[t] = "done" /\ op[t] \in ClaimOps /\ outcome[t] # "panicked")
            => /\ index[t] # Sentinel
               /\ cell[kind[t]] # Sentinel

\* C10 (Container addressability): new() makes exactly as many empty slots as
\* the count it read, and get / get_mut for a Kind claimed before new() was
\* called never fail for want of a slot.
Addressable ==
    /\ \A t \in Threads :
           (pc[t] = "done" /\ op[t] = "new" /\ outcome[t] = "ok")
               => /\ Len(items[self[t]]) = num_items[t]
                  /\ \A i \in 1..Len(items[self[t]]) : items[self[t]][i] = EmptySlot
    /\ \A c \in Containers :
           alive[c] => \A k \in claimed_at_new[c] :
                           cell[k] # Sentinel /\ InBounds(cell[k], items[c])
    /\ \A t \in Threads :
           (pc[t] = "done" /\ op[t] \in {"get", "get_mut"}
                /\ kind[t] \in claimed_at_new[self[t]])
               => outcome[t] \notin {"no_registered_item", "index_out_of_bounds"}

\* get succeeds for a Kind claimed before new(), in a container that has no
\* slot for a Kind claimed after it.
AddressableWitness ==
    \E t \in Threads :
        /\ pc[t] = "done" /\ op[t] = "get" /\ outcome[t] = "ok"
        /\ kind[t] \in claimed_at_new[self[t]]
        /\ \E k \in Claimed : ~InBounds(cell[k], items[self[t]])

\* A call of get or get_mut returns in this step.
Returns(t) ==
    /\ pc[t] # "done"
    /\ pc'[t] = "done"
    /\ op'[t] \in {"get", "get_mut"}
    /\ outcome'[t] # "panicked"

\* What the reference that t's get or get_mut returned points at.
Item(t) == SlotAt(items[self[t]], index[t])

\* Thread t holds the result of a successful get or get_mut.
Holds(t) ==
    /\ pc[t] = "done"
    /\ op[t] \in {"get", "get_mut"}
    /\ outcome[t] = "ok"

\* C11 (Out-of-bounds access): a get whose index is at or beyond the
\* container's slot count, be the index claimed after construction or made up
\* outside the protocol, ends with the "No registered item found" failure and
\* leaves every slot as it was; no other get ends with that failure.
OutOfBoundsGet ==
    [][\A t \in Threads :
          (Returns(t) /\ op'[t] = "get") =>
              IF InBounds(index'[t], items[self'[t]])
                THEN outcome'[t] # "no_registered_item"
                ELSE /\ outcome'[t] = "no_registered_item"
                     /\ items' = items]_vars

\* get for the hand-written type failed on a container that has slots, one of
\* them occupied.
OutOfBoundsGetWitness ==
    \E t \in Threads :
        /\ pc[t] = "done" /\ op[t] = "get"
        /\ outcome[t] = "no_registered_item"
        /\ kind[t] = UnregisteredEntity
        /\ \E i \in 1..Len(items[self[t]]) : items[self[t]][i] # EmptySlot

\* C12 (Construct-once caching): an occupied slot is never built again: it
\* keeps its Kind and changes only by a write through the reference a
\* get_mut returned; an empty slot is filled with the default value of the
\* Kind whose index it is; and every successful get / get_mut holds the item
\* stored in its Kind's slot.
ConstructOnce ==
    /\ [](\A t \in Threads :
             Holds(t) => /\ index[t] = cell[kind[t]]
                         /\ Item(t).kind = kind[t])
    /\ [][\A c \in Containers : \A i \in 1..Len(items[c]) :
            /\ Len(items'[c]) = Len(items[c])
            /\ IF items[c][i] = EmptySlot
                 THEN items'[c][i] # EmptySlot =>
                          \E k \in Kinds : /\ cell'[k] = i - 1
                                           /\ items'[c][i] = new_boxed(k)
                 ELSE /\ items'[c][i].kind = items[c][i].kind
                      /\ items'[c][i] # items[c][i] =>
                            \E t \in Threads :
                                /\ Holds(t) /\ op[t] = "get_mut"
                                /\ self[t] = c /\ index[t] = i - 1
                                /\ pc'[t] = "done"]_vars

\* A later get returns the item that an earlier get_mut built and changed.
ConstructOnceWitness ==
    \E t \in Threads :
        /\ Holds(t) /\ op[t] = "get"
        /\ Item(t).val # 0

\* The slot of Kind k in container c, if it has one.
HasSlot(c, k) == k \in Claimed /\ InBounds(cell[k], items[c])

\* C13 (Mutation persistence and isolation): the item of a Kind holds the last
\* value written through get_mut (the default while none was), every later
\* successful get / get_mut of that Kind sees it, and a step changes the slot
\* of a Kind only in a call for that very Kind.
MutationPersists ==
    /\ [](\A c \in Containers, k \in Kinds :
             (HasSlot(c, k) /\ SlotAt(items[c], cell[k]) # EmptySlot) =>
                 SlotAt(items[c], cell[k]) =
                     [kind |-> k,
                      val |-> IF written[c][k] = NoWrite THEN 0 ELSE written[c][k]])
    /\ [](\A t \in Threads :
             (Holds(t) /\ written[self[t]][kind[t]] # NoWrite) =>
                 Item(t).val = written[self[t]][kind[t]])
    /\ [][\A c \in Containers, k \in Kinds :
            (HasSlot(c, k) /\ alive[c]
               /\ SlotAt(items'[c], cell[k]) # SlotAt(items[c], cell[k])) =>
                \E t \in Threads :
                    /\ pc'[t] = "done" /\ op'[t] \in {"get", "get_mut"}
                    /\ self'[t] = c /\ kind'[t] = k]_vars

\* get sees the value written to its Kind's item although another Kind's item
\* was built and written in the same container.
MutationPersistsWitness ==
    \E t \in Threads :
        /\ Holds(t) /\ op[t] = "get"
        /\ written[self[t]][kind[t]] = MaxVal
        /\ \E k \in Kinds : k # kind[t] /\ written[self[t]][k] \notin {NoWrite, MaxVal}

\* C14 (get_mut resolves and fails as get does): every get and every get_mut
\* that returns ends the same way for the same slot: the "No registered item
\* found" failure when the index is at or beyond the slot count, the
\* type-mismatch failure when the slot holds another Kind's item, success with
\* the Kind's item in the slot otherwise.
GetMutLikeGet ==
    \A t \in Threads :
        (pc[t] = "done" /\ op[t] \in {"get", "get_mut"} /\ outcome[t] # "panicked")
            => outcome[t] = IF ~InBounds(index[t], items[self[t]])
                              THEN "no_registered_item"
                              ELSE Downcast(Item(t), kind[t])

\* C15 (No type mismatch under correct use): with every index obtained through
\* the claim protocol, each occupied slot i of each container holds an item
\* of the Kind whose claimed index is i, and no get / get_mut ends with the
\* type-mismatch failure.
NoTypeMismatch ==
    /\ \A c \in Containers : \A i \in 1..Len(items[c]) :
           items[c][i] # EmptySlot =>
               /\ items[c][i].kind \in Claimed
               /\ cell[items[c][i].kind] = i - 1
    /\ \A t \in Threads :
           (pc[t] = "done" /\ op[t] \in {"get", "get_mut"})
               => outcome[t] # "type_mismatch"

\* The container holds the items of two Kinds, one of them registered by a
\* thread other than the container's.
NoTypeMismatchWitness ==
    \E c \in Containers :
        /\ Cardinality({i \in 1..Len(items[c]) : items[c][i] # EmptySlot}) >= 2
        /\ \E u \in Threads \ Owners :
               /\ pc[u] = "done" /\ op[u] = "index"
               /\ candidate[u] = index[u]
               /\ cell[kind[u]] = index[u]
               /\ InBounds(index[u], items[c])
               /\ SlotAt(items[c], index[u]) = new_boxed(kind[u])

\* C17 (Every operation completes): with threads that make finitely many
\* calls and a weakly fair scheduler, every call that has started returns;
\* the mutex is only ever held by a thread that is about to release it, and no
\* thread waits for a mutex it holds itself.
EveryCallReturns ==
    /\ \A t \in Threads : (pc[t] \notin {"idle", "done"}) ~> (pc[t] = "done")
    /\ [](\A t \in Threads :
             /\ lock = t => pc[t] \in {"cas", "inc", "unlock", "count_unlock"}
             /\ pc[t] \in {"lock", "count_lock"} => lock # t)

\* A thread in a later call waits for the mutex while the main thread holds
\* it inside a get on its container.
EveryCallReturnsWitness ==
    \E t \in Threads, u \in Threads :
        /\ pc[t] \in {"lock", "count_lock"}
        /\ calls[t] >= 1
        /\ lock = u
        /\ op[u] \in {"get", "get_mut"}

\* C18 (Sequential scenario): from an empty registry and with one thread, the
\* Kinds get the indices 0, 1, 2, ... in the order they claim, a count read
\* afterwards is their number, and in a container built after all of them a
\* get resolves each Kind to an item of its own, distinct from the others and
\* holding the default value until it is written.
SequentialScenario ==
    /\ \A i \in 1..Len(order) : cell[order[i]] = i - 1
    /\ \A t \in Threads :
           (pc[t] = "done" /\ op[t] = "count") => num_items[t] = Len(order)
    /\ \A t \in Threads :
           (pc[t] = "done" /\ op[t] = "get"
                /\ kind[t] \in claimed_at_new[self[t]])
               => /\ outcome[t] = "ok"
                  /\ Item(t).kind = kind[t]
                  /\ written[self[t]][kind[t]] = NoWrite
                         => Item(t) = new_boxed(kind[t])
                  /\ \A k \in claimed_at_new[self[t]] \ {kind[t]} :
                         cell[k] # index[t]

\* Three Kinds claimed in an order other than that of their numbers, the
\* container built after them, the first two resolved and a get for the
\* third returning its default item.
SequentialScenarioWitness ==
    \E t \in Threads :
        /\ Len(order) >= 3
        /\ order[1] > order[2]
        /\ pc[t] = "done" /\ op[t] = "get" /\ outcome[t] = "ok"
        /\ kind[t] = order[3]
        /\ {order[1], order[2], order[3]} \subseteq claimed_at_new[self[t]]
        /\ Len(items[self[t]]) >= 3
        /\ \A i \in 1..3 : items[self[t]][i] = new_boxed(order[i])

\* C19 (Containers are independent): a step changes the slots of a container
\* only in a call made on that container, every container's item of a Kind
\* holds what was last written to it in that container, and no step changes
\* an index that a Kind has claimed.
IndependentContainers ==
    /\ [](\A c \in Containers, k \in Kinds :
             (HasSlot(c, k) /\ SlotAt(items[c], cell[k]) # EmptySlot) =>
                 SlotAt(items[c], cell[k]).val =
                     IF written[c][k] = NoWrite THEN 0 ELSE written[c][k])
    /\ [][/\ \A c \in Containers :
               items'[c] # items[c] =>
                   \E t \in Threads : /\ self'[t] = c
                                      /\ pc'[t] = "done"
                                      /\ op'[t] \in {"new", "get", "get_mut"}
          /\ \A k \in Kinds : cell[k] # Sentinel => cell'[k] = cell[k]]_vars

\* Two containers hold an item of the same Kind: one was written, the other
\* still has the default value.
IndependentContainersWitness ==
    \E c \in Containers, d \in Containers, k \in Kinds :
        /\ c # d
        /\ HasSlot(c, k) /\ HasSlot(d, k)
        /\ SlotAt(items[c], cell[k]) = [kind |-> k, val |-> MaxVal]
        /\ SlotAt(items[d], cell[k]) = new_boxed(k)
        /\ written[d][k] = NoWrite

\* The calls of one kind, and the pops that returned an element, among the
\* log entries after position i and before position j.
PushesBetween(i, j) ==
    Cardinality({n \in (i + 1)..(j - 1) : log[n].op = "push"})
PopsBetween(i, j) ==
    Cardinality({n \in (i + 1)..(j - 1) : log[n].op = "pop" /\ log[n].res # None})

\* The pushes before position j whose value is still in the vector at j:
\* every push made after them has been popped again.
Unpopped(j) ==
    {i \in 1..(j - 1) :
        /\ log[i].op = "push"
        /\ PushesBetween(i, j) = PopsBetween(i, j)}

\* C20 (push / pop is LIFO): every pop returns the value of the latest push
\* not yet popped, or None when there is none, in which case the vector stays
\* empty; and len is the number of pushes minus the number of pops that
\* returned an element.
PushPopLifo ==
    /\ [](\A j \in 1..Len(log) :
             log[j].op = "pop" =>
                 log[j].res =
                     IF Unpopped(j) = {} THEN None
                     ELSE log[CHOOSE i \in Unpopped(j) :
                                  \A m \in Unpopped(j) : m <= i].arg)
    /\ [](len = PushesBetween(0, Len(log) + 1) - PopsBetween(0, Len(log) + 1))
    /\ [](is_empty <=> PushesBetween(0, Len(log) + 1) = PopsBetween(0, Len(log) + 1))
    /\ [][(Len(log') > Len(log) /\ log'[Len(log')].op = "pop" /\ is_empty)
             => (ret' = None /\ data' = <<>>)]_vars

\* Two different pushes came back in reverse order, a third pop returned
\* None, and a push followed.
PushPopLifoWitness ==
    /\ Len(log) >= 6
    /\ \A j \in 1..2 : log[j].op = "push"
    /\ log[1].arg # log[2].arg
    /\ log[3].op = "pop" /\ log[3].res = log[2].arg
    /\ log[4].op = "pop" /\ log[4].res = log[1].arg
    /\ log[5].op = "pop" /\ log[5].res = None
    /\ log[6].op = "push"
    /\ len = 1

\* C21 (replace): a replace at an index below len stores the value there,
\* returns the element that was there and changes neither the length nor any
\* other element; at an index at or beyond len it returns None and changes
\* nothing.
ReplaceInPlace ==
    [][call'.op = "replace" =>
          IF call'.index < Len(data)
            THEN /\ ret' = data[call'.index + 1]
                 /\ Len(data') = Len(data)
                 /\ data'[call'.index + 1] = call'.value
                 /\ \A j \in 1..Len(data) :
                        j # call'.index + 1 => data'[j] = data[j]
            ELSE /\ ret' = None
                 /\ data' = data]_vars

\* A replace in the middle of a full vector returned an element that differs
\* from the new one, and the neighbours differ from the new one too.
ReplaceInPlaceWitness ==
    /\ call.op = "replace"
    /\ call.index = 1
    /\ Len(data) = MaxLen
    /\ ret \notin {None, call.value}
    /\ data[1] # call.value
    /\ data[3] # call.value

Snapshot ==
    [][IF call'.op = "to_vec"
         THEN snap' = data /\ data' = data
         ELSE snap' = snap]_vars

\* After a snapshot of a full vector, calls on the ValueVec left it with
\* other contents of the same length.
SnapshotWitness ==
    /\ Len(snap) = MaxLen
    /\ call.op = "replace"
    /\ Len(data) = MaxLen
    /\ \A j \in 1..MaxLen : data[j] # snap[j]

\* C24 (insert_entity's result): insert_entity(key, id) returns true when id
\* was already in key's set and false when it was newly added, and after the
\* call a set exists for key and contains id.
InsertEntityReportsPresent ==
    [][icall'.op = "insert_entity" =>
          /\ iret'.val = (/\ get(icall'.key) # <<>>
                          /\ icall'.id \in get(icall'.key)[1])
          /\ find(lookup', icall'.hash) # 0
          /\ icall'.id \in lookup'[find(lookup', icall'.hash)].set]_vars

\* C25 (insert_entity_with_hash): with no set stored for the hash it returns
\* Err(()) and leaves the index as it was; with a set stored it adds id to
\* that set only and returns Ok(true) when id was already in the set,
\* Ok(false) when it was not.
InsertWithHashReportsPresent ==
    [][icall'.op = "insert_entity_with_hash" =>
          IF has_hash(icall'.hash)
            THEN /\ iret' = [tag |-> "ok",
                             val |-> icall'.id \in get_with_hash(icall'.hash)[1]]
                 /\ Len(lookup') = Len(lookup)
                 /\ \A i \in 1..Len(lookup) :
                        /\ lookup'[i].key = lookup[i].key
                        /\ lookup'[i].set =
                             IF i = find(lookup, icall'.hash)
                               THEN lookup[i].set \cup {icall'.id}
                               ELSE lookup[i].set
            ELSE /\ iret'.tag = "err"
                 /\ lookup' = lookup]_vars

\* Thread t took the slow path and found the cell claimed by another call:
\* the value it read from the counter is not the one in its Kind's cell.
Lost(t) == cell[kind[t]] # candidate[t]

\* C27 (winner's index is the counter at lock time): a call that finds the
\* cell at the sentinel under the lock stores and returns the value the
\* counter had when it took the lock, which is the number of Kinds claimed
\* before it, and leaves the counter one higher; when no other Kind was
\* claimed since the test read the count, that index is the count it read.
WinnerIndex ==
    \A t \in Threads :
        /\ pc[t] = "cas" => candidate[t] = counter
        /\ pc[t] = "inc" =>
              /\ cell[kind[t]] = candidate[t]
              /\ counter = candidate[t]
              /\ candidate[t] = Cardinality(Claimed) - 1
        /\ (pc[t] = "unlock" /\ ~Lost(t)) =>
              /\ index[t] = candidate[t]
              /\ counter = candidate[t] + 1
              /\ index[t] = Cardinality(Claimed) - 1
        /\ (pc[t] \in {"unlock", "done"} /\ outcome[t] # "panicked"
              /\ called = {kind[t]}) =>
              index[t] = initial_registered_items_count

\* In a later round of the test a thread has won the only Kind raced and is
\* about to return a non-zero index.
WinnerIndexWitness ==
    \E t \in Threads :
        /\ pc[t] = "unlock"
        /\ ~Lost(t)
        /\ called = {kind[t]}
        /\ index[t] = initial_registered_items_count
        /\ index[t] >= 1
        /\ counter = index[t] + 1

\* C28 (lost race leaves the registry unchanged): a call whose
\* compare_exchange fails changes neither the counter nor the cell, from
\* taking the lock to its return, and returns the cell's value.
LostRaceNoChange ==
    /\ [](\A t \in Threads :
            (pc[t] \in {"inc", "unlock"} /\ Lost(t)) =>
                /\ pc[t] = "unlock"
                /\ counter = candidate[t]
                /\ index[t] = cell[kind[t]])
    /\ [][\A t \in Threads :
            /\ (pc[t] = "cas" /\ cell[kind[t]] # Sentinel /\ pc'[t] # "cas") =>
                  /\ cell' = cell
                  /\ counter' = counter
                  /\ index'[t] = cell[kind[t]]
            /\ (pc[t] = "unlock" /\ Lost(t) /\ pc'[t] # "unlock") =>
                  /\ cell' = cell
                  /\ counter' = counter
                  /\ pc'[t] = "done"
                  /\ index'[t] = cell[kind[t]]]_vars

\* A thread lost the race for the first Kind after a second Kind was claimed:
\* it read 2 from the counter and returns 0.
LostRaceNoChangeWitness ==
    \E t \in Threads :
        /\ pc[t] = "unlock"
        /\ Lost(t)
        /\ candidate[t] >= 2
        /\ counter = candidate[t]
        /\ index[t] = 0

\* C29 (return value matches the cell): whichever way a call of the claim
\* operation went, the index it returns is the one in its Kind's cell, and
\* the counter is what the call read under the lock or one more; no step of
\* a call but the winner's increment changes the counter.
ReturnMatchesCell ==
    /\ [](\A t \in Threads :
            /\ (pc[t] = "done" /\ op[t] \in ClaimOps
                  /\ outcome[t] # "panicked") => index[t] = cell[kind[t]]
            /\ pc[t] = "unlock" =>
                  counter \in {candidate[t], candidate[t] + 1})
    /\ [][\A t \in Threads :
            pc'[t] # pc[t] =>
                IF pc[t] = "inc" /\ pc'[t] = "unlock"
                  THEN counter' = counter + 1
                  ELSE counter' = counter]_vars

\* One thread has returned a non-zero index through the fast path while
\* another has returned the same index after losing the race for it.
ReturnMatchesCellWitness ==
    \E t \in Threads, u \in Threads :
        /\ pc[t] = "done" /\ pc[u] = "done"
        /\ op[t] = "index" /\ op[u] = "index"
        /\ kind[t] = kind[u]
        /\ index[t] >= 1
        /\ candidate[t] = 0
        /\ candidate[u] > index[u]

\* Thread t is between acquiring and releasing NEXT_ITEM_INDEX's lock.
InCritical(t) == pc[t] \in {"cas", "inc", "unlock", "count_unlock"}

\* C30 (lock discipline): the lock is held by exactly the thread that is
\* between acquiring and releasing it, so by at most one; it is free when no
\* thread is inside initialize_item_index or get_registered_item_count; the
\* counter is read at the acquisition and written by the holder only; and a
\* call that took the lock has released it when it returns, won or lost.
LockDiscipline ==
    /\ [](\A t \in Threads : InCritical(t) <=> lock = t)
    /\ []((\A t \in Threads : pc[t] \in {"idle", "done"}) => lock = NoThread)
    /\ [][/\ counter' # counter =>
                (lock # NoThread /\ pc[lock] = "inc" /\ pc'[lock] # pc[lock])
           /\ \A t \in Threads :
                /\ (pc[t] = "lock" /\ pc'[t] = "cas") =>
                      (lock = NoThread /\ lock' = t
                         /\ candidate'[t] = counter)
                /\ (pc[t] = "count_lock" /\ pc'[t] = "count_unlock") =>
                      (lock = NoThread /\ lock' = t
                         /\ num_items'[t] = counter)
                /\ (InCritical(t) /\ pc'[t] = "done") =>
                      (lock = t /\ lock' = NoThread)]_vars

\* While one thread holds the lock before its increment, the other waits to
\* read the count.
LockDisciplineWitness ==
    \E t \in Threads, u \in Threads :
        /\ pc[t] = "inc"
        /\ lock = t
        /\ pc[u] = "count_lock"

\* How many times value occurs in the Vec.
Count(v, value) == Cardinality({i \in 1..Len(v) : v[i] = value})

\* C36 (swap_remove): swap_remove(index) with index < len returns the element
\* at index, makes the vector one shorter, keeps every other element as
\* often as it occurred and puts the former last element at index; and a Vec
\* converted from the ValueVec right after a to_vec equals that snapshot.
SwapRemove ==
    /\ [][(call'.op = "swap_remove" /\ call'.index < Len(data)) =>
             /\ ret' = data[call'.index + 1]
             /\ Len(data') = Len(data) - 1
             /\ \A value \in Values :
                    Count(data', value) =
                        Count(data, value) - (IF value = ret' THEN 1 ELSE 0)
             /\ call'.index < Len(data') =>
                    data'[call'.index + 1] = data[Len(data)]]_vars
    /\ [][(call.op = "to_vec" /\ call'.op = "into") => out' = snap]_vars

\* The first element of a full vector was removed; the last one, which
\* differs from it and from the second, took its place.
SwapRemoveWitness ==
    /\ call.op = "swap_remove"
    /\ call.index = 0
    /\ Len(data) = MaxLen - 1
    /\ ret \in Values
    /\ data[1] # ret
    /\ data[1] # data[2]

\* C37 (one entry per key): the lookup table never holds two entries for one
\* key, so the set get(key) returns holds every entity inserted for the key.
OneEntryPerKey ==
    /\ \A i \in 1..Len(lookup), j \in 1..Len(lookup) :
          lookup[i].key = lookup[j].key => i = j
    /\ \A key \in Keys :
          get(key) # <<>> =>
              \A i \in 1..Len(lookup) :
                  lookup[i].key = key => lookup[i].set \subseteq get(key)[1]

\* C33 (late lazy registration): a get or get_mut that is the first claim of
\* its Kind, on a container built before, claims the slot (the cell holds the
\* counter's value from then on, the counter is one higher) and then fails
\* with the addressing error, "No registered item found", leaving every
\* container as it was; every later get or get_mut of that Kind on that
\* container fails the same way, and on a container built after the claim it
\* succeeds.
LateRegistration ==
    /\ [](\A t \in Threads :
            (pc[t] = "done" /\ op[t] \in {"get", "get_mut"}
               /\ kind[t] \in Kinds) =>
                /\ cell[kind[t]] = index[t]
                /\ IF kind[t] \in claimed_at_new[self[t]]
                     THEN outcome[t] = "ok"
                     ELSE outcome[t] = "no_registered_item")
    /\ [][\A t \in Threads :
            (pc[t] = "unlock" /\ pc'[t] = "done"
               /\ op[t] \in {"get", "get_mut"}) =>
                /\ ~Lost(t)
                /\ cell'[kind[t]] = candidate[t]
                /\ counter' = candidate[t] + 1
                /\ outcome'[t] = "no_registered_item"
                /\ items' = items]_vars

\* C34 (index collision by a Kind outside the protocol): when a hand-written
\* index() names the slot of a registered Kind, the first of the two to
\* access the slot has its item stored, every get or get_mut by the other
\* ends with the type-mismatch failure, and the stored item keeps its type
\* and changes only by a write through its own Kind's get_mut.
IndexCollision ==
    /\ [](\A t \in Threads :
            (pc[t] = "done" /\ op[t] \in {"get", "get_mut"}
               /\ InBounds(index[t], items[self[t]])) =>
                /\ Item(t) # EmptySlot
                /\ outcome[t] = (IF Item(t).kind = kind[t]
                                   THEN "ok" ELSE "type_mismatch"))
    /\ [][\A c \in Containers : \A j \in 1..Len(items[c]) :
            items[c][j] # EmptySlot =>
                /\ Len(items'[c]) = Len(items[c])
                /\ items'[c][j].kind = items[c][j].kind
                /\ items'[c][j].val # items[c][j].val =>
                      \E t \in Threads :
                          /\ pc[t] = "done" /\ op[t] = "get_mut"
                          /\ outcome[t] = "ok"
                          /\ self[t] = c /\ index[t] = j - 1
                          /\ kind[t] = items[c][j].kind]_vars

\* A registered Kind took the slot first and wrote to its item; the get of
\* the hand-written type, whose index() names that slot, then failed and the
\* item still holds what was written.
IndexCollisionWitness ==
    \E t \in Threads :
        /\ pc[t] = "done" /\ op[t] = "get"
        /\ kind[t] = UnregisteredEntity
        /\ outcome[t] = "type_mismatch"
        /\ Item(t).kind \in Kinds
        /\ Item(t).val = MaxVal

\* C31 (fast path): a call of index() for a Kind whose cell is not the
\* sentinel returns the cell's value in its first step, whoever holds the
\* lock, and that step changes neither the lock, the counter nor any cell.
FastPathFrame ==
    /\ [][\A t \in Threads :
            (pc[t] = "idle" /\ pc'[t] # "idle" /\ op'[t] = "index"
               /\ cell[kind'[t]] # Sentinel) =>
                /\ pc'[t] = "done"
                /\ index'[t] = cell[kind'[t]]
                /\ lock' = lock
                /\ counter' = counter
                /\ cell' = cell]_vars
    /\ [](\A t \in Threads, k \in Kinds :
            (pc[t] = "idle" /\ cell[k] # Sentinel) =>
                ENABLED (CallIndex(t, k) /\ pc'[t] = "done"))

\* A thread returned the index of a Kind whose winner still holds the lock
\* and has not incremented the counter yet.
FastPathFrameWitness ==
    \E t \in Threads, u \in Threads :
        /\ pc[t] = "done" /\ op[t] = "index"
        /\ pc[u] = "inc" /\ lock = u
        /\ kind[t] = kind[u]
        /\ index[t] = counter
        /\ index[t] >= 1

\* C32 (an observed index is covered by a later count): the count a thread
\* reads, in get_registered_item_count or in RegisteredItems::new, is greater
\* than every index that thread's earlier calls of index() returned, so the
\* container it builds has a slot for each of them.
CountCoversSeen ==
    \A t \in Threads :
        /\ (pc[t] = "count_unlock"
              \/ (pc[t] = "done" /\ op[t] \in {"count", "new"}
                     /\ outcome[t] = "ok")) => num_items[t] >= seen[t]
        /\ (pc[t] = "done" /\ op[t] = "new" /\ outcome[t] = "ok") =>
              Len(items[self[t]]) >= seen[t]

\* A thread was given the index of the Kind claimed last, not the first one,
\* and then built a container, whose last slot is that Kind's.
CountCoversSeenWitness ==
    \E t \in Threads :
        /\ pc[t] = "done" /\ op[t] = "new"
        /\ seen[t] >= 2
        /\ seen[t] = counter
        /\ Len(items[self[t]]) = seen[t]

\* C35 (exclusive-borrow discipline): at most one mutable borrow of the
\* internal Vec is live at any time, whatever the caller passes to the
\* methods, extend's iterator included.
ExclusiveBorrow == borrows <= 1

====
